---- MODULE Spec2Model ----
(***************************************************************************)
(* Model of the funding-proposal generator (src/main.py).                  *)
(*                                                                         *)
(* The server answers POST /generate-proposal/ requests.  One request is   *)
(* followed from its arrival to its response: content extraction, the      *)
(* prompt, the loop of call_gemini_direct over the candidate models (one   *)
(* step per HTTP request to the backend, whose answer is an input), the    *)
(* PDF rendering and the response.  trace, renders and seen are history    *)
(* variables: the backend requests and renderer calls of the request in    *)
(* progress, and the classes of the responses the server has sent so far.  *)
(***************************************************************************)
EXTENDS Integers, Sequences, FiniteSets, TLC

VARIABLES report_text, file, content, prompt, idx, last_error,
          proposal_text, pc, response, trace, renders, seen

\* Invocations that run at the same time in the server's thread pool, each in
\* its own call of call_gemini_direct: for each the position in the function,
\* the position of its for loop, its last_error, the requests it has sent
\* (history) and how its call ended; API_KEY is the module's global.
VARIABLES API_KEY, c_pc, c_idx, c_last_error, c_trace, c_result

cvars == <<API_KEY, c_pc, c_idx, c_last_error, c_trace, c_result>>

vars == <<report_text, file, content, prompt, idx, last_error,
          proposal_text, pc, response, trace, renders, seen, cvars>>

----------------------------------------------------------------------------
(* Bounds and program constants *)

\* how many characters beyond the truncation limit an input may have
MaxOver == 1

\* how many invocations run at the same time
NumInv == 2

\* content[:10000]
TruncLimit == 10000

\* time.sleep(1) after a 429
SleepSeconds == 1

\* mutant: the legacy model is listed first
models_LegacyFirst == <<"gemini-pro", "gemini-1.5-flash", "gemini-1.5-pro">>

\* the models list of call_gemini_direct, in the order of the for loop
models == <<"gemini-1.5-flash", "gemini-1.5-pro", "gemini-pro">>

Min(a, b) == IF a <= b THEN a ELSE b

----------------------------------------------------------------------------
(* Inputs *)

\* lengths of the texts a caller sends
Lens == {0, TruncLimit} \cup {TruncLimit + k : k \in 1..MaxOver}

\* report_text: None, or a string of some length ("" has length 0)
ReportTexts == {[present |-> FALSE, len |-> 0]}
                 \cup {[present |-> TRUE, len |-> n] : n \in Lens}

\* file: None, or an upload whose bytes are, or are not, valid UTF-8
Files == {[present |-> FALSE, utf8 |-> TRUE, len |-> 0]}
           \cup {[present |-> TRUE, utf8 |-> FALSE, len |-> TruncLimit]}
           \cup {[present |-> TRUE, utf8 |-> TRUE, len |-> n] : n \in Lens}

\* what the backend can answer to one requests.post: an exception of the
\* transport (status 0), or a status with a body.  The body matters for 200:
\*   text      JSON with candidates[0].content.parts[0].text a non-empty string
\*   emptytext the same path holding the empty string
\*   nontext   the same path holding a value that is not a string
\*   nopath    JSON where the path hits a missing key or index
\*   badtype   JSON where the path hits a value that cannot be subscripted
\*   notjson   a body that is not JSON
Statuses == {200, 429, 404, 400, 401, 500}
Bodies == {"text", "emptytext", "nontext", "nopath", "badtype", "notjson"}
Responses ==
    {[raised |-> TRUE, status |-> 0, body |-> "diag"]}
      \cup {[raised |-> FALSE, status |-> 200, body |-> b] : b \in Bodies}
      \cup {[raised |-> FALSE, status |-> s, body |-> "diag"] :
               s \in Statuses \ {200}}

----------------------------------------------------------------------------
(* Values *)

\* last_error = ""
NoError == [kind |-> "", model |-> "", detail |-> ""]

\* content = "" ; a text is the first len characters of what src holds
NoContent == [src |-> "none", len |-> 0]

NoPrompt == [template |-> "", report |-> NoContent]

NoResponse == [status |-> 0, prefix |-> "", msg |-> "", last |-> NoError,
               body |-> "none"]

StatusText(s) ==
    CASE s = 400 -> "400" [] s = 401 -> "401" [] s = 500 -> "500"
      [] s = 404 -> "404" [] s = 429 -> "429" [] s = 200 -> "200"
      [] OTHER -> "?"

----------------------------------------------------------------------------
(* call_gemini_direct: one iteration of the for loop *)

\* the branch of the try block one backend answer takes
Classify(r) ==
    IF r.raised THEN "Exception"
    ELSE IF r.status = 200
         THEN CASE r.body \in {"text", "emptytext", "nontext"} -> "Success"
                [] r.body = "nopath" -> "Empty"
                [] OTHER -> "Exception"
    ELSE IF r.status = 429 THEN "RateLimited"
    ELSE IF r.status = 404 THEN "NotFound"
    ELSE "OtherStatus"

\* the value the return statement hands back
ExtractText(r) ==
    CASE r.body = "text" -> "PROPOSAL"
      [] r.body = "emptytext" -> ""
      [] OTHER -> "<nontext>"

\* mutant: the 200 branch falls through to the next model instead of returning
Returns_Continue(class) == FALSE

\* the branch returns from the function (every other branch continues)
Returns(class) == class = "Success"

\* last_error as the branch assigns it
ErrorOf(m, r) ==
    CASE Classify(r) = "Empty" ->
            [kind |-> "empty", model |-> m, detail |-> ""]
      [] Classify(r) = "RateLimited" ->
            [kind |-> "ratelimit", model |-> "", detail |-> ""]
      [] Classify(r) = "NotFound" ->
            [kind |-> "notfound", model |-> m, detail |-> ""]
      [] Classify(r) = "OtherStatus" ->
            [kind |-> "http", model |-> "", detail |-> StatusText(r.status)]
      [] OTHER ->
            [kind |-> "exception", model |-> "",
             detail |-> IF r.raised THEN "RequestException"
                        ELSE IF r.body = "notjson" THEN "JSONDecodeError"
                        ELSE "TypeError"]

\* mutant: only a rate limit, a 404 or an empty answer is remembered
AssignLastError_SkipFatal(old, new) ==
    IF new.kind \in {"http", "exception"} THEN old ELSE new

\* mutant: the first error is kept, later ones are dropped
AssignLastError_KeepFirst(old, new) ==
    IF old.kind = "" THEN new ELSE old

\* last_error = ... in a failing branch: the old value is overwritten
AssignLastError(old, new) == new

\* mutant: the sleep is placed after the if chain, so every failure sleeps
Backoff_Always(class) == SleepSeconds

\* mutant: the sleep after a 429 is twice as long
Backoff_Double(class) == IF class = "RateLimited" THEN 2 * SleepSeconds ELSE 0

\* seconds slept in the branch before continue
Backoff(class) == IF class = "RateLimited" THEN SleepSeconds ELSE 0

\* mutant: a rate-limited model is tried again instead of being left
NextIdx_Retry(i, class) == IF class = "RateLimited" THEN i ELSE i + 1

\* mutant: a status outside 200/429/404 or an exception breaks out of the loop
NextIdx_Break(i, class) ==
    IF class \in {"OtherStatus", "Exception"} THEN Len(models) + 1 ELSE i + 1

\* the position of the for loop after a branch that continues
NextIdx(i, class) == i + 1

\* raise Exception(f"All models failed. Last error: {last_error}")
AllModelsFailed(err) == [msg |-> "All models failed. Last error: ", last |-> err]

----------------------------------------------------------------------------
(* generate_proposal *)

\* mutant: the else branch that rejects a request without input is missing
ContentSource_NoElse(f, t) == IF f.present THEN "file" ELSE "text"

\* mutant: the two tests are swapped, report_text goes before the file
ContentSource_TextFirst(f, t) ==
    IF t.present /\ t.len > 0 THEN "text"
    ELSE IF f.present THEN "file"
    ELSE "none"

\* which branch of "if file / elif report_text / else" is taken
ContentSource(f, t) ==
    IF f.present THEN "file"
    ELSE IF t.present /\ t.len > 0 THEN "text"
    ELSE "none"

\* mutant: the slice is missing, the whole content goes into the prompt
Truncate_None(c) == c

\* content[:10000]
Truncate(c) == [c EXCEPT !.len = Min(c.len, TruncLimit)]

\* the f-string of the prompt
BuildPrompt(c) == [template |-> "grant writer, six sections", report |-> Truncate(c)]

\* mutant: the handler lets the HTTPException of the else branch through as
\* it is and wraps only the other exceptions
ErrorReadingFile_PassThrough(m) ==
    [status |-> 400,
     prefix |-> IF m = "Please provide report_text or upload a file."
                THEN "" ELSE "Error reading file: ",
     msg |-> m, last |-> NoError, body |-> "none"]

\* except Exception as e: raise HTTPException(400, "Error reading file: ...")
ErrorReadingFile(m) ==
    [status |-> 400, prefix |-> "Error reading file: ", msg |-> m,
     last |-> NoError, body |-> "none"]

\* mutant: the handler returns the error as a value, which is sent with 200
AIGenerationFailed_Returned(e) ==
    [status |-> 200, prefix |-> "AI Generation Failed: ", msg |-> e.msg,
     last |-> e.last, body |-> "none"]

\* mutant: exhaustion after a rate limit, a 404 or an empty answer is sent as
\* 503, other failures as 500
AIGenerationFailed_Busy(e) ==
    [status |-> IF e.last.kind \in {"ratelimit", "notfound", "empty"}
                THEN 503 ELSE 500,
     prefix |-> "AI Generation Failed: ", msg |-> e.msg,
     last |-> e.last, body |-> "none"]

\* except Exception as e: raise HTTPException(500, "AI Generation Failed: ...")
AIGenerationFailed(e) ==
    [status |-> 500, prefix |-> "AI Generation Failed: ", msg |-> e.msg,
     last |-> e.last, body |-> "none"]

\* mutant: the handler of step 3 is a copy of the handler of step 2
PDFGenerationError_Copied(m) ==
    [status |-> 500, prefix |-> "AI Generation Failed: ", msg |-> m,
     last |-> NoError, body |-> "none"]

\* except Exception as e: raise HTTPException(500, "PDF Generation Error: ...")
PDFGenerationError(m) ==
    [status |-> 500, prefix |-> "PDF Generation Error: ", msg |-> m,
     last |-> NoError, body |-> "none"]

\* return Response(content=bytes(pdf_bytes), media_type="application/pdf", ...)
PdfResponse ==
    [status |-> 200, prefix |-> "", msg |-> "", last |-> NoError,
     body |-> "pdf"]

\* generate_pdf_from_text can only encode a string
Renderable(t) == t # "<nontext>"

----------------------------------------------------------------------------
(* History *)

Transient == {"RateLimited", "NotFound", "Empty"}
Fatal == {"OtherStatus", "Exception"}

\* the class of the generation failure a trace of failed attempts stands for
FailureClass(tr) ==
    IF \A i \in 1..Len(tr) : tr[i].outcome \in Transient
    THEN "ExhaustedTransient" ELSE "ExhaustedFatal"

Seen(class, r) == [class |-> class, status |-> r.status, prefix |-> r.prefix]

----------------------------------------------------------------------------
(* Concurrent invocations *)

\* generate_proposal is a plain def, so the server runs each request in a
\* thread of its pool
Invocations == 1..NumInv

\* the answers of the backend followed in the concurrent invocations: a text,
\* a rate limit, a 404, a server error
CResponses ==
    {r \in Responses : r.status \in {200, 429, 404, 500}
                          /\ r.body \in {"text", "diag"}}

\* call_gemini_direct has not ended
NoResult == [kind |-> "none", text |-> "", msg |-> "", last |-> NoError]

\* mutant: models, the loop position and last_error are module globals
FrameOf_Global(k) == 1

\* where the locals of invocation k (the loop over models, last_error)
\* live: in the frame of its own call
FrameOf(k) == k

----------------------------------------------------------------------------
(* State machine *)

\* no invocation is running in the thread pool
ConcIdle ==
    /\ API_KEY = "key"
    /\ c_pc = [k \in Invocations |-> "request"]
    /\ c_idx = [k \in Invocations |-> 1]
    /\ c_last_error = [k \in Invocations |-> NoError]
    /\ c_trace = [k \in Invocations |-> <<>>]
    /\ c_result = [k \in Invocations |-> NoResult]

Init ==
    /\ ConcIdle
    /\ report_text \in ReportTexts
    /\ file \in Files
    /\ content = NoContent
    /\ prompt = NoPrompt
    /\ idx = 1
    /\ last_error = NoError
    /\ proposal_text = "<unset>"
    /\ pc = "extract"
    /\ response = NoResponse
    /\ trace = <<>>
    /\ renders = 0
    /\ seen = {}

\* step 1 of generate_proposal, and the prompt
Extract ==
    /\ pc = "extract"
    /\ LET src == ContentSource(file, report_text)
           failed == src = "none" \/ (src = "file" /\ ~file.utf8)
           c == IF src = "file" THEN [src |-> "file", len |-> file.len]
                ELSE [src |-> "text", len |-> report_text.len]
           r == ErrorReadingFile(IF src = "none"
                                 THEN "Please provide report_text or upload a file."
                                 ELSE "UnicodeDecodeError")
       IN IF failed
          THEN /\ response' = r
               /\ pc' = "done"
               /\ seen' = seen \cup {Seen("InputError", r)}
               /\ UNCHANGED <<content, prompt>>
          ELSE /\ content' = c
               /\ prompt' = BuildPrompt(c)
               /\ pc' = "generate"
               /\ UNCHANGED <<response, seen>>
    /\ UNCHANGED <<report_text, file, idx, last_error, proposal_text, trace, renders>>
    /\ UNCHANGED cvars

\* one iteration of the loop of call_gemini_direct; when the loop ends, the
\* raise and the handler of generate_proposal that turns it into a response
Attempt ==
    /\ pc = "generate"
    /\ idx \in 1..Len(models)
    /\ \E r \in Responses :
         LET m == models[idx]
             class == Classify(r)
             tr == Append(trace, [model |-> m, outcome |-> class,
                                  delay |-> Backoff(class),
                                  prompt |-> prompt])
             err == AssignLastError(last_error, ErrorOf(m, r))
             next == NextIdx(idx, class)
             resp == AIGenerationFailed(AllModelsFailed(err))
         IN /\ trace' = tr
            /\ IF Returns(class)
               THEN /\ proposal_text' = ExtractText(r)
                    /\ pc' = "render"
                    /\ UNCHANGED <<idx, last_error, response, seen>>
               ELSE /\ last_error' = err
                    /\ idx' = next
                    /\ UNCHANGED proposal_text
                    /\ IF next \in 1..Len(models)
                       THEN /\ pc' = "generate"
                            /\ UNCHANGED <<response, seen>>
                       ELSE /\ pc' = "done"
                            /\ response' = resp
                            /\ seen' = seen \cup {Seen(FailureClass(tr), resp)}
    /\ UNCHANGED <<report_text, file, content, prompt, renders>>
    /\ UNCHANGED cvars

\* step 3 of generate_proposal and the response
Render ==
    /\ pc = "render"
    /\ renders' = renders + 1
    /\ \E ok \in BOOLEAN :
         LET r == IF ok /\ Renderable(proposal_text) THEN PdfResponse
                  ELSE PDFGenerationError(IF Renderable(proposal_text)
                                          THEN "FPDFException"
                                          ELSE "AttributeError")
         IN /\ response' = r
            /\ seen' = seen \cup {Seen(IF r.status = 200 THEN "Success"
                                       ELSE "RenderError", r)}
    /\ pc' = "done"
    /\ UNCHANGED <<report_text, file, content, prompt, idx, last_error,
                   proposal_text, trace, cvars>>

\* the server takes the next request
NewRequest ==
    /\ pc = "done"
    /\ report_text' \in ReportTexts
    /\ file' \in Files
    /\ content' = NoContent
    /\ prompt' = NoPrompt
    /\ idx' = 1
    /\ last_error' = NoError
    /\ proposal_text' = "<unset>"
    /\ pc' = "extract"
    /\ response' = NoResponse
    /\ trace' = <<>>
    /\ renders' = 0
    /\ UNCHANGED <<seen, cvars>>

\* one request of invocation k to the backend, up to the return, the sleep or
\* the continue of its branch
CRequest(k) ==
    /\ c_pc[k] = "request"
    /\ c_idx[FrameOf(k)] \in 1..Len(models)
    /\ \E r \in CResponses :
         LET f == FrameOf(k)
             m == models[c_idx[f]]
             class == Classify(r)
             next == NextIdx(c_idx[f], class)
         IN /\ c_trace' = [c_trace EXCEPT ![k] =
                  Append(@, [model |-> m, outcome |-> class, key |-> API_KEY])]
            /\ IF Returns(class)
               THEN /\ c_result' = [c_result EXCEPT ![k] =
                          [kind |-> "return", text |-> ExtractText(r),
                           msg |-> "", last |-> NoError]]
                    /\ c_pc' = [c_pc EXCEPT ![k] = "returned"]
                    /\ UNCHANGED <<c_idx, c_last_error>>
               ELSE /\ c_last_error' = [c_last_error EXCEPT ![f] =
                          AssignLastError(@, ErrorOf(m, r))]
                    /\ UNCHANGED c_result
                    /\ IF Backoff(class) > 0
                       THEN /\ c_pc' = [c_pc EXCEPT ![k] = "sleep"]
                            /\ UNCHANGED c_idx
                       ELSE /\ c_idx' = [c_idx EXCEPT ![f] = next]
                            /\ c_pc' = [c_pc EXCEPT ![k] =
                                  IF next \in 1..Len(models) THEN "request"
                                  ELSE "raise"]
    /\ UNCHANGED <<API_KEY, report_text, file, content, prompt, idx, last_error,
                   proposal_text, pc, response, trace, renders, seen>>

\* time.sleep(1) of invocation k is over: continue
CWake(k) ==
    /\ c_pc[k] = "sleep"
    /\ LET f == FrameOf(k)
           next == NextIdx(c_idx[f], "RateLimited")
       IN /\ c_idx' = [c_idx EXCEPT ![f] = next]
          /\ c_pc' = [c_pc EXCEPT ![k] =
                IF next \in 1..Len(models) THEN "request" ELSE "raise"]
    /\ UNCHANGED <<API_KEY, c_last_error, c_trace, c_result>>
    /\ UNCHANGED <<report_text, file, content, prompt, idx, last_error,
                   proposal_text, pc, response, trace, renders, seen>>

\* the loop of invocation k is over: raise Exception("All models failed...")
CRaise(k) ==
    /\ c_pc[k] = "raise"
    /\ LET e == AllModelsFailed(c_last_error[FrameOf(k)])
       IN c_result' = [c_result EXCEPT ![k] =
              [kind |-> "raise", text |-> "", msg |-> e.msg, last |-> e.last]]
    /\ c_pc' = [c_pc EXCEPT ![k] = "raised"]
    /\ UNCHANGED <<API_KEY, c_idx, c_last_error, c_trace>>
    /\ UNCHANGED <<report_text, file, content, prompt, idx, last_error,
                   proposal_text, pc, response, trace, renders, seen>>

Next == Extract \/ Attempt \/ Render \/ NewRequest

Spec == Init /\ [][Next]_vars

\* NumInv invocations whose calls of call_gemini_direct run at the same time
ConcInit ==
    /\ ConcIdle
    /\ report_text = [present |-> FALSE, len |-> 0]
    /\ file = [present |-> FALSE, utf8 |-> TRUE, len |-> 0]
    /\ content = NoContent
    /\ prompt = NoPrompt
    /\ idx = 1
    /\ last_error = NoError
    /\ proposal_text = "<unset>"
    /\ pc = "extract"
    /\ response = NoResponse
    /\ trace = <<>>
    /\ renders = 0
    /\ seen = {}

ConcNext == \E k \in Invocations : CRequest(k) \/ CWake(k) \/ CRaise(k)

ConcSpec == ConcInit /\ [][ConcNext]_vars

\* a request that has started is served to its end
FairSpec == Spec /\ WF_vars(Extract) /\ WF_vars(Attempt) /\ WF_vars(Render)

TypeOK ==
    /\ report_text \in ReportTexts
    /\ file \in Files
    /\ idx \in 1..(Len(models) + 1)
    /\ pc \in {"extract", "generate", "render", "done"}
    /\ Len(trace) <= Len(models)
    /\ renders \in 0..1

----------------------------------------------------------------------------
(* Properties *)

\* the number of backend requests of this invocation sent to model m
AttemptsOn(m) == Cardinality({i \in 1..Len(trace) : trace[i].model = m})

\* call_gemini_direct has ended without a Success
GenerationFailed ==
    /\ pc = "done"
    /\ Len(trace) > 0
    /\ trace[Len(trace)].outcome # "Success"

\* C1: an invocation accepts at most one Success: the attempt that returned
\* 200 with extractable text is the last backend request of the invocation,
\* its text is what call_gemini_direct returned, and the loop is left.
C1_OneSuccess ==
    \A i \in 1..Len(trace) :
        trace[i].outcome = "Success" =>
            /\ i = Len(trace)
            /\ pc \in {"render", "done"}
            /\ proposal_text # "<unset>"
            /\ idx = i

C1_Witness ==
    /\ pc = "done"
    /\ Len(trace) = 1
    /\ trace[1].outcome = "Success"
    /\ response.status = 200

\* C2 as stated: no candidate is attempted after one that produced a
\* FatalError (a status other than 200, 429, 404, or an exception).
C2_Original ==
    \A i \in 1..Len(trace) : trace[i].outcome \in Fatal => i = Len(trace)

\* C2 amended: a FatalError does not end the invocation.  It is recorded in
\* last_error and the next model of the list is attempted; the invocation
\* fails only when the model that produced it was the last of the list.
C2_FatalAdvances ==
    \A i \in 1..Len(trace) :
        trace[i].outcome \in Fatal =>
            IF i < Len(models)
            THEN \/ /\ Len(trace) > i
                    /\ trace[i + 1].model = models[i + 1]
                 \/ /\ Len(trace) = i
                    /\ pc = "generate"
                    /\ idx = i + 1
                    /\ last_error.kind \in {"http", "exception"}
                    /\ response = NoResponse
            ELSE /\ pc = "done"
                 /\ response.status = 500
                 /\ response.msg = "All models failed. Last error: "
                 /\ response.last = last_error
                 /\ last_error.kind \in {"http", "exception"}

C2_Witness ==
    /\ Len(trace) = 3
    /\ trace[1].outcome = "OtherStatus"
    /\ trace[2].outcome = "Exception"
    /\ trace[3].outcome = "Success"

\* C3 as stated: a candidate that answered 429 on every attempt and has been
\* left was attempted exactly 3 times.
C3_Original ==
    \A k \in 1..Len(models) :
        ( /\ AttemptsOn(models[k]) > 0
          /\ \A i \in 1..Len(trace) :
                 trace[i].model = models[k] => trace[i].outcome = "RateLimited"
          /\ (idx > k \/ pc = "done") )
        => AttemptsOn(models[k]) = 3

\* C3 amended: a candidate that answers 429 is attempted exactly once: the
\* sequencer sleeps one second and advances to the next model, with no retry
\* of the same model.  With a first model that is rate limited and a second
\* that succeeds, the requests are one to the first, then one to the second,
\* ending in Success.
C3_OneAttemptOn429 ==
    /\ \A i \in 1..Len(trace) :
           trace[i].outcome = "RateLimited" =>
               /\ trace[i].model = models[i]
               /\ AttemptsOn(trace[i].model) = 1
               /\ trace[i].delay = SleepSeconds
               /\ i < Len(trace) => trace[i + 1].model = models[i + 1]
               /\ i = Len(trace) => idx = i + 1
    /\ ( /\ Len(trace) >= 2
         /\ trace[1].outcome = "RateLimited"
         /\ trace[2].outcome = "Success" )
       => /\ Len(trace) = 2
          /\ trace[1].model = models[1]
          /\ trace[2].model = models[2]
          /\ pc \in {"render", "done"}
          /\ proposal_text # "<unset>"

C3_Witness ==
    /\ pc = "done"
    /\ Len(trace) = 2
    /\ trace[1].outcome = "RateLimited"
    /\ trace[2].outcome = "Success"
    /\ response.status = 200

\* C4: whatever failures the candidates answer with, call_gemini_direct makes
\* at most one backend request per model of the list, in list order and with
\* no model revisited; once started it ends, and when every request failed it
\* ends, after all models were tried, in the "All models failed" failure.
C4_Terminates ==
    /\ [](/\ Len(trace) <= Len(models)
          /\ \A i \in 1..Len(trace) : trace[i].model = models[i]
          /\ GenerationFailed =>
                /\ Len(trace) = Len(models)
                /\ idx = Len(models) + 1
                /\ response.msg = "All models failed. Last error: "
                /\ response.last = last_error
                /\ response.status = 500)
    /\ (pc = "generate") ~> (pc \in {"render", "done"})

C4_Witness ==
    /\ GenerationFailed
    /\ trace[1].outcome = "RateLimited"
    /\ trace[2].outcome = "OtherStatus"
    /\ trace[3].outcome = "Exception"

\* C5: a candidate that answers 404 is left at once: no sleep, no second
\* request to it, the next model is the next of the list; when it was the
\* last model the invocation ends in the "All models failed" failure.
C5_NotFoundAdvances ==
    \A i \in 1..Len(trace) :
        trace[i].outcome = "NotFound" =>
            /\ trace[i].delay = 0
            /\ AttemptsOn(trace[i].model) = 1
            /\ IF i < Len(models)
               THEN \/ Len(trace) > i /\ trace[i + 1].model = models[i + 1]
                    \/ Len(trace) = i /\ pc = "generate" /\ idx = i + 1
               ELSE /\ pc = "done"
                    /\ response.status = 500
                    /\ response.msg = "All models failed. Last error: "
                    /\ response.last = [kind |-> "notfound", model |-> models[i],
                                        detail |-> ""]

C5_Witness ==
    /\ pc = "done"
    /\ Len(trace) = Len(models)
    /\ trace[1].outcome = "NotFound"
    /\ trace[Len(models)].outcome = "NotFound"

\* C6: a request with neither report_text nor a file is answered 400 and
\* nothing else happens in it: no backend request, no rendering.
C6_NoInputRejected ==
    (~file.present /\ ~report_text.present /\ pc # "extract") =>
        /\ pc = "done"
        /\ response.status = 400
        /\ response.body = "none"
        /\ trace = <<>>
        /\ renders = 0
        /\ prompt = NoPrompt

C6_Witness ==
    /\ ~file.present
    /\ ~report_text.present
    /\ pc = "done"
    /\ response.status = 400

\* C7 as stated: a request carrying both a report_text and a file is rejected
\* and no backend request is issued for it.
C7_Original ==
    (file.present /\ report_text.present /\ report_text.len > 0
       /\ pc # "extract") =>
        /\ trace = <<>>
        /\ response.status = 400

\* C7 amended: a request carrying both a report_text and a file is not
\* rejected for that: the file is used and report_text is ignored.  The
\* prompt of every backend request holds the file's content, and the request
\* is answered 400 only when the file is not valid UTF-8.
C7_FileWins ==
    (file.present /\ report_text.present /\ report_text.len > 0
       /\ pc # "extract") =>
        IF file.utf8
        THEN /\ content = [src |-> "file", len |-> file.len]
             /\ prompt.report.src = "file"
             /\ response.status # 400
             /\ pc = "done" => Len(trace) > 0
             /\ \A i \in 1..Len(trace) : trace[i].prompt.report.src = "file"
        ELSE /\ pc = "done"
             /\ response.status = 400
             /\ trace = <<>>

C7_Witness ==
    /\ file.present
    /\ report_text.present
    /\ report_text.len > 0
    /\ Len(trace) = 1
    /\ trace[1].prompt.report.src = "file"

\* C8: a 200 response with the PDF is sent only when, in the same invocation,
\* a content was extracted, the last backend request was a Success and the
\* rendering of its text succeeded; when generation fails the response is an
\* error without document bytes.
C8_SuccessOnlyIfAllSucceeded ==
    /\ (response.status = 200 \/ response.body = "pdf") =>
          /\ response.status = 200
          /\ response.body = "pdf"
          /\ pc = "done"
          /\ content.src \in {"file", "text"}
          /\ Len(trace) > 0
          /\ trace[Len(trace)].outcome = "Success"
          /\ renders = 1
          /\ Renderable(proposal_text)
    /\ GenerationFailed =>
          /\ response.status >= 400
          /\ response.body = "none"
          /\ renders = 0

C8_Witness ==
    /\ GenerationFailed
    /\ \E a \in seen : a.class = "Success" /\ a.status = 200

\* C9 as stated: the response to an invocation where every candidate failed
\* by 429, 404 or an empty answer never has the status of the response to an
\* invocation that met a fatal backend error.
C9_Original ==
    \A a, b \in seen :
        (a.class = "ExhaustedTransient" /\ b.class = "ExhaustedFatal")
            => a.status # b.status

\* C9 amended: both failures are answered with the same status, 500, and the
\* same "AI Generation Failed: All models failed. Last error:" detail; they
\* differ only in the last error the detail ends with, which is the failure
\* of the last candidate.
C9_SameStatus ==
    /\ \A a \in seen :
           a.class \in {"ExhaustedTransient", "ExhaustedFatal"} =>
               a.status = 500 /\ a.prefix = "AI Generation Failed: "
    /\ GenerationFailed =>
           /\ response.status = 500
           /\ response.prefix = "AI Generation Failed: "
           /\ response.msg = "All models failed. Last error: "
           /\ response.last.kind \in {"ratelimit", "notfound", "empty"}
                <=> trace[Len(trace)].outcome \in Transient

C9_Witness ==
    /\ \E a \in seen : a.class = "ExhaustedTransient"
    /\ \E b \in seen : b.class = "ExhaustedFatal"
    /\ GenerationFailed
    /\ FailureClass(trace) = "ExhaustedTransient"

\* C10: a failure of the rendering is answered "PDF Generation Error", and
\* only after a Success of the generation; a failure of the generation is
\* answered "AI Generation Failed" and the renderer is not called.
C10_RenderErrorDistinct ==
    /\ response.prefix = "PDF Generation Error: " =>
          /\ renders = 1
          /\ Len(trace) > 0
          /\ trace[Len(trace)].outcome = "Success"
          /\ response.status = 500
    /\ response.prefix = "AI Generation Failed: " =>
          /\ renders = 0
          /\ GenerationFailed
    /\ GenerationFailed => response.prefix = "AI Generation Failed: "
    /\ (pc = "done" /\ renders = 1 /\ response.status # 200) =>
          response.prefix = "PDF Generation Error: "
    /\ \A a \in seen :
          /\ a.class = "RenderError" <=> a.prefix = "PDF Generation Error: "
          /\ a.class \in {"ExhaustedTransient", "ExhaustedFatal"}
               <=> a.prefix = "AI Generation Failed: "

C10_Witness ==
    /\ pc = "done"
    /\ renders = 1
    /\ response.prefix = "PDF Generation Error: "
    /\ proposal_text = "PROPOSAL"
    /\ \E a \in seen : a.class \in {"ExhaustedTransient", "ExhaustedFatal"}

\* C11: whatever the length of the content, the report inside the prompt is
\* the content's first min(len, 10000) characters: the same text, never more
\* than 10000 characters, whole when it is that short; and every backend
\* request of the invocation carries that same prompt.
C11_PromptTruncated ==
    pc \in {"generate", "render"} \/ (pc = "done" /\ Len(trace) > 0) =>
        /\ prompt.report.src = content.src
        /\ prompt.report.len <= 10000
        /\ content.len <= 10000 => prompt.report.len = content.len
        /\ content.len > 10000 => prompt.report.len = 10000
        /\ content.len = IF file.present THEN file.len ELSE report_text.len
        /\ \A i \in 1..Len(trace) : trace[i].prompt = prompt

C11_Witness ==
    /\ content.len > 10000
    /\ Len(trace) = Len(models)
    /\ trace[Len(models)].prompt.report.len = 10000

\* C12: a 200 answer whose generated text is missing or empty is never the
\* result of call_gemini_direct: the text it returns is not the empty string,
\* and a model that answered without text is left at once, with no sleep and
\* no second request to it.
C12_EmptyNeverSuccess ==
    /\ proposal_text # ""
    /\ \A i \in 1..Len(trace) :
           trace[i].outcome = "Empty" =>
               /\ trace[i].delay = 0
               /\ AttemptsOn(trace[i].model) = 1
               /\ Len(trace) = i => (idx = i + 1 /\ pc \in {"generate", "done"})

\* the kind of last_error that the branch of an outcome assigns
KindOf(class) ==
    CASE class = "Empty" -> "empty"
      [] class = "RateLimited" -> "ratelimit"
      [] class = "NotFound" -> "notfound"
      [] class = "OtherStatus" -> "http"
      [] class = "Exception" -> "exception"
      [] OTHER -> ""

\* C13 as stated: the error named in the "All models failed" failure is a
\* rate limit, a 404 or an empty answer, never the diagnostic of another
\* status or of an exception.
C13_Original ==
    GenerationFailed => response.last.kind \in {"ratelimit", "notfound", "empty"}

\* C13 amended: the one failure raised when the list is consumed names the
\* last error observed, of whatever class: when the last request ended in
\* another status or an exception, that diagnostic is the error named.
C13_LastObservedError ==
    GenerationFailed =>
        /\ response.msg = "All models failed. Last error: "
        /\ response.last.kind = KindOf(trace[Len(trace)].outcome)
        /\ trace[Len(trace)].outcome \in Fatal
             => response.last.kind \in {"http", "exception"}
        /\ trace[Len(trace)].outcome \in Transient
             => response.last.kind \in {"ratelimit", "notfound", "empty"}

C13_Witness ==
    /\ GenerationFailed
    /\ trace[1].outcome = "NotFound"
    /\ trace[2].outcome = "RateLimited"
    /\ trace[3].outcome = "OtherStatus"
    /\ response.last = [kind |-> "http", model |-> "", detail |-> "500"]

\* C14: the models are requested in the fixed order gemini-1.5-flash,
\* gemini-1.5-pro, gemini-pro, each at most once: the i-th request of an
\* invocation goes to the i-th of them, and a model that was left after a
\* 404, an empty answer or a rate limit is not requested again.
C14_FixedOrderOnce ==
    /\ Len(trace) <= 3
    /\ \A i \in 1..Len(trace) :
           /\ i = 1 => trace[i].model = "gemini-1.5-flash"
           /\ i = 2 => trace[i].model = "gemini-1.5-pro"
           /\ i = 3 => trace[i].model = "gemini-pro"
           /\ \A j \in 1..Len(trace) : trace[j].model = trace[i].model => j = i
    /\ pc = "generate" => idx = Len(trace) + 1

C14_Witness ==
    /\ Len(trace) = 3
    /\ trace[1].outcome = "NotFound"
    /\ trace[2].outcome = "Empty"
    /\ trace[3].outcome = "RateLimited"

\* the seconds slept in the requests of a trace
RECURSIVE TotalDelay(_)
TotalDelay(tr) ==
    IF tr = <<>> THEN 0 ELSE tr[1].delay + TotalDelay(Tail(tr))

\* C15: the invocation sleeps only after a 429; the sleeps after the requests
\* to one model never decrease; there is at most one sleep of one second per
\* model, so at most 3 seconds in an invocation.
C15_BackoffBounded ==
    /\ \A i \in 1..Len(trace) :
           /\ trace[i].delay > 0 => trace[i].outcome = "RateLimited"
           /\ trace[i].outcome = "RateLimited" => trace[i].delay = 1
           /\ trace[i].delay <= 1
           /\ \A j \in 1..Len(trace) :
                  (i < j /\ trace[i].model = trace[j].model)
                      => trace[i].delay <= trace[j].delay
    /\ TotalDelay(trace) <= 3

C15_Witness ==
    /\ Len(trace) = 3
    /\ \A i \in 1..3 : trace[i].outcome = "RateLimited"
    /\ TotalDelay(trace) = 3

\* C17: each backend request ends in one of two ways, the return of the
\* extracted text or the move to the next model, whatever the answer was (any
\* status, an exception of the transport, a 200 body that is not JSON or has
\* not the expected shape).  The only failure call_gemini_direct ends in is
\* "All models failed", and only after each of the three models was requested.
C17_NoEscape ==
    /\ \A i \in 1..Len(trace) :
           IF trace[i].outcome = "Success"
           THEN /\ i = Len(trace)
                /\ pc \in {"render", "done"}
                /\ proposal_text # "<unset>"
           ELSE /\ i < Len(trace) \/ idx = i + 1
                /\ i = Len(trace) =>
                      /\ last_error.kind = KindOf(trace[i].outcome)
                      /\ proposal_text = "<unset>"
    /\ (pc = "done" /\ Len(trace) > 0 /\ Len(trace) < Len(models))
          => trace[Len(trace)].outcome = "Success"
    /\ response.prefix = "AI Generation Failed: " =>
          /\ response.msg = "All models failed. Last error: "
          /\ \A k \in 1..Len(models) : AttemptsOn(models[k]) = 1
          /\ \A i \in 1..Len(trace) : trace[i].outcome # "Success"

C17_Witness ==
    /\ GenerationFailed
    /\ \A i \in 1..Len(models) : trace[i].outcome = "Exception"
    /\ response.last.detail = "JSONDecodeError"

\* C18: every failing request overwrites last_error, so the error reported
\* when all models failed is the one of the request to the last model of the
\* list, gemini-pro, whatever the earlier models answered; the response
\* holds that error and no other.
C18_LastCandidateError ==
    /\ [](GenerationFailed =>
            /\ Len(trace) = 3
            /\ trace[3].model = "gemini-pro"
            /\ response.last = last_error
            /\ last_error.kind = KindOf(trace[3].outcome)
            /\ last_error.model \in {"", "gemini-pro"})
    /\ [][(trace' # trace /\ trace' # <<>>
             /\ trace'[Len(trace')].outcome # "Success")
          => /\ last_error'.kind = KindOf(trace'[Len(trace')].outcome)
             /\ last_error'.model \in {"", trace'[Len(trace')].model}]_vars

C18_Witness ==
    /\ GenerationFailed
    /\ trace[1].outcome = "Empty"
    /\ trace[2].outcome = "Exception"
    /\ trace[3].outcome = "NotFound"
    /\ response.last = [kind |-> "notfound", model |-> "gemini-pro", detail |-> ""]

\* C19: every failure of the content extraction (a file that is not UTF-8,
\* no input at all, an empty report_text without a file) is answered 400 with
\* a detail that starts with "Error reading file:", the missing-input error
\* included, and nothing else is answered 400.
C19_ExtractionErrors400 ==
    /\ ( /\ pc # "extract"
         /\ \/ file.present /\ ~file.utf8
            \/ ~file.present /\ ~report_text.present
            \/ ~file.present /\ report_text.present /\ report_text.len = 0 )
       => /\ pc = "done"
          /\ response.status = 400
          /\ response.prefix = "Error reading file: "
          /\ response.body = "none"
          /\ trace = <<>>
          /\ ~file.present =>
                response.msg = "Please provide report_text or upload a file."
    /\ response.status = 400 => response.prefix = "Error reading file: "
    /\ \A a \in seen :
          /\ a.class = "InputError" =>
                a.status = 400 /\ a.prefix = "Error reading file: "
          /\ a.status = 400 => a.class = "InputError"

C19_Witness ==
    /\ ~file.present
    /\ report_text.present
    /\ report_text.len = 0
    /\ pc = "done"
    /\ response.prefix = "Error reading file: "
    /\ \E a \in seen : a.class = "InputError"

\* what invocation k holds is what its own requests and their answers make it
Own(k) ==
    LET tr == c_trace[k]
        n == Len(tr)
    IN /\ \A i \in 1..n : tr[i].model = models[i] /\ tr[i].key = "key"
       /\ \A i \in 1..n : tr[i].outcome = "Success" => i = n
       /\ c_pc[k] = "request" => c_idx[k] = n + 1
       /\ c_pc[k] = "sleep" =>
             c_idx[k] = n /\ n > 0 /\ tr[n].outcome = "RateLimited"
       /\ (n > 0 /\ tr[n].outcome # "Success") =>
             /\ c_last_error[k].kind = KindOf(tr[n].outcome)
             /\ c_last_error[k].model \in {"", tr[n].model}
       /\ c_pc[k] = "returned" <=> (n > 0 /\ tr[n].outcome = "Success")
       /\ c_pc[k] = "returned" =>
             c_result[k].kind = "return" /\ c_result[k].text = "PROPOSAL"
       /\ c_pc[k] = "raised" =>
             /\ n = Len(models)
             /\ c_result[k].kind = "raise"
             /\ c_result[k].last = c_last_error[k]
             /\ c_result[k].last.kind = KindOf(tr[n].outcome)
       /\ c_pc[k] \in {"request", "sleep", "raise"} <=> c_result[k] = NoResult

\* C16: invocations that run at the same time share nothing they write.  In
\* every interleaving, the models an invocation requests, its position, its
\* last_error and its result follow from the answers to its own requests; a
\* step of one invocation changes nothing of another; an invocation that
\* sleeps does not keep another from sending its request; the API key is
\* never written.
C16_Independent ==
    /\ [](\A k \in Invocations :
            /\ Own(k)
            /\ \A j \in Invocations \ {k} :
                   (c_pc[k] = "sleep" /\ c_pc[j] = "request")
                       => ENABLED CRequest(j))
    /\ [][/\ API_KEY' = API_KEY
          /\ \A k \in Invocations :
                 (c_pc'[k] = c_pc[k] /\ c_trace'[k] = c_trace[k]) =>
                     /\ c_idx'[k] = c_idx[k]
                     /\ c_last_error'[k] = c_last_error[k]
                     /\ c_result'[k] = c_result[k]]_vars

C16_Witness ==
    /\ c_pc[1] = "sleep"
    /\ Len(c_trace[1]) = 1
    /\ c_pc[2] = "raised"
    /\ c_trace[2][1].outcome = "RateLimited"
    /\ c_result[2].last = [kind |-> "notfound", model |-> "gemini-pro",
                           detail |-> ""]
====
